---- MODULE Spec2Model ----
(***************************************************************************)
(* Slippery Frozen Lake: the CustomSFLEnv environment (SFL_Environment.py) *)
(* and iterative policy evaluation (policy_evaluation.py), driven by the   *)
(* entry point main.py.                                                    *)
(***************************************************************************)
EXTENDS Integers, Sequences, FiniteSets, TLC

VARIABLES
    state,       \* CustomSFLEnv.state, per instance
    step_count,  \* CustomSFLEnv.step_count, per instance
    rng,         \* the state of the module-level generator of `random`
    ret,         \* the last call: its arguments, the instance's fields at
                 \* entry, and what it returned or raised
    calls,       \* per instance, the valid step calls since its last reset
    pc,          \* where main.py / policy_evaluation stands
    pi,          \* policy_evaluation's arguments ...
    P,
    gamma,
    theta,
    terminal_states,
    prev_V,      \* ... and its locals
    V,
    den,         \* prev_V[x] stands for the number prev_V[x] / den
    s,           \* the loop variable of line 9
    sweeps,      \* completed passes of the while loop
    log          \* what the caller has kept of the calls it made so far

envVars == <<state, step_count, rng, ret, calls>>
argVars == <<pi, P, gamma, theta, terminal_states>>
peVars == <<pc, pi, P, gamma, theta, terminal_states, prev_V, V, den, s,
            sweeps>>
vars == <<state, step_count, rng, ret, calls, pc, pi, P, gamma, theta,
          terminal_states, prev_V, V, den, s, sweeps, log>>

----------------------------------------------------------------------------
(* Bounds of the model *)

MaxSteps == 2          \* step() is not called once step_count reaches this
RngPeriod == 3         \* number of distinct generator states
MaxSeed == 1           \* seeds passed to reset are 0..MaxSeed
MaxSweeps == 5         \* the while loop is not re-entered after this many

----------------------------------------------------------------------------
(* CustomSFLEnv.__init__ *)

\* the instances a process may hold; Spec runs the first one alone
Envs == {"env1", "env2"}

holes == {5, 7, 11, 12}
goal == 15
grid_size == 4
NumActions == 4
NumStates == 16

\* spaces.Discrete(n).contains(x) for an integer x
MutDiscreteContains(n, x) == 0 <= x /\ x <= n
DiscreteContains(n, x) == 0 <= x /\ x < n

Max(a, b) == IF a >= b THEN a ELSE b
MutMin(a, b) == b
Min(a, b) == IF a <= b THEN a ELSE b

----------------------------------------------------------------------------
(* The generator behind random.seed / random.choices.  Its state is one of  *)
(* RngPeriod values; seeding sets it from the seed, each draw advances it.  *)

RngStates == 0 .. (RngPeriod - 1)
MutSeedRng(seed) == rng
SeedRng(seed) == seed % RngPeriod
MutAdvanceRng(r) == r
AdvanceRng(r) == (r + 1) % RngPeriod

\* probs = [1/3, 1/3, 1/3], as numerators over ProbDen
ProbDen == 3
probs == <<1, 1, 1>>

RECURSIVE SumTo(_, _)
SumTo(w, n) == IF n = 0 THEN 0 ELSE SumTo(w, n - 1) + w[n]

\* itertools.accumulate(weights)
CumWeights(w) == [i \in 1 .. Len(w) |-> SumTo(w, i)]

\* random(): a float in [0, 1), here a multiple of 1/ProbDen
RandomOf(r) == r % ProbDen

\* bisect(cum_weights, x, 0, hi): the number of entries <= x among the
\* first hi ones
Bisect(cum, x, hi) == Cardinality({i \in 1 .. hi : cum[i] <= x})

\* random.choices(population, weights, k=1)[0]; total = cum_weights[-1],
\* the draw is random() * total
Choices(population, weights, r) ==
    LET cum == CumWeights(weights)
        total == cum[Len(cum)]
        x == (RandomOf(r) * total) \div ProbDen
    IN  population[Bisect(cum, x, Len(population) - 1) + 1]

----------------------------------------------------------------------------
(* CustomSFLEnv.step *)

MutActionProbability ==
    [a \in 0 .. 3 |->
        CASE a = 0 -> <<0, 1, 2>>
          [] a = 1 -> <<1, 0, 2>>
          [] a = 2 -> <<2, 1, 3>>
          [] a = 3 -> <<3, 0, 2>>]

action_probability ==
    [a \in 0 .. 3 |->
        CASE a = 0 -> <<0, 1, 3>>
          [] a = 1 -> <<1, 0, 2>>
          [] a = 2 -> <<2, 1, 3>>
          [] a = 3 -> <<3, 0, 2>>]

\* lines 86-98: the cell reached from s by the realized action
MutMove(cell, actual_action) ==
    CASE actual_action = 0 -> Max(0, cell - 1)
      [] actual_action = 1 -> Min(NumStates - 1, cell + grid_size)
      [] actual_action = 2 -> Min(NumStates - 1, cell + 1)
      [] actual_action = 3 -> Max(0, cell - grid_size)
      [] OTHER -> cell

Move(cell, actual_action) ==
    LET row == cell \div grid_size
        col == cell % grid_size
        newcol == CASE actual_action = 0 -> Max(0, col - 1)
                    [] actual_action = 2 -> Min(grid_size - 1, col + 1)
                    [] OTHER -> col
        newrow == CASE actual_action = 1 -> Min(grid_size - 1, row + 1)
                    [] actual_action = 3 -> Max(0, row - 1)
                    [] OTHER -> row
    IN  newrow * grid_size + newcol

\* lines 101-109
MutRewardOf(new_state) == IF new_state \in holes THEN 0 ELSE 1
RewardOf(new_state) ==
    IF new_state \in holes THEN 0
    ELSE IF new_state = goal THEN 1
    ELSE 0

MutDoneOf(new_state) == new_state = goal
DoneOf(new_state) ==
    IF new_state \in holes THEN TRUE
    ELSE IF new_state = goal THEN TRUE
    ELSE FALSE

ActionArgs == -1 .. (NumActions + 1)

\* the fields of instance e
Fields(e) == [state |-> state[e], step_count |-> step_count[e]]

StepResult(new_state, count, actual_action) ==
    [observation |-> new_state,
     reward |-> RewardOf(new_state),
     done |-> DoneOf(new_state),
     truncated |-> FALSE,
     info |-> [step_count |-> count, actual_action |-> actual_action]]

step(e, action) ==
    /\ step_count[e] < MaxSteps
    /\ IF ~DiscreteContains(NumActions, action)
       THEN \* line 70: the assertion fails before anything is touched
            /\ ret' = [op |-> "step", env |-> e, arg |-> <<action>>,
                       before |-> Fields(e),
                       error |-> "AssertionError", result |-> <<>>]
            /\ UNCHANGED <<state, step_count, rng, calls>>
            /\ UNCHANGED peVars
       ELSE IF action \notin DOMAIN action_probability
       THEN \* line 82 would raise KeyError after line 72 has counted
            /\ step_count' = [step_count EXCEPT ![e] = @ + 1]
            /\ ret' = [op |-> "step", env |-> e, arg |-> <<action>>,
                       before |-> Fields(e),
                       error |-> "KeyError", result |-> <<>>]
            /\ UNCHANGED <<state, rng, calls>>
            /\ UNCHANGED peVars
       ELSE LET possible_actions == action_probability[action]
                actual_action == Choices(possible_actions, probs, rng)
                new_state == Move(state[e], actual_action)
            IN  /\ step_count' = [step_count EXCEPT ![e] = @ + 1]
                /\ rng' = AdvanceRng(rng)
                /\ state' = [state EXCEPT ![e] = new_state]
                /\ calls' = [calls EXCEPT ![e] = @ + 1]
                /\ ret' = [op |-> "step", env |-> e, arg |-> <<action>>,
                           before |-> Fields(e), error |-> "none",
                           result |-> <<StepResult(new_state,
                                                   step_count[e] + 1,
                                                   actual_action)>>]
                /\ UNCHANGED peVars

----------------------------------------------------------------------------
(* CustomSFLEnv.reset *)

\* seed: <<>> is None, <<n>> the seed n
SeedArgs == {<<>>} \cup {<<n>> : n \in 0 .. MaxSeed}

\* options: None, a dict without 'state', or {'state': v}
NoOptions == [isNone |-> TRUE, keys |-> {}, state |-> 0]
EmptyOptions == [isNone |-> FALSE, keys |-> {}, state |-> 0]
StateOptions(v) == [isNone |-> FALSE, keys |-> {"state"}, state |-> v]
OptionArgs ==
    {NoOptions, EmptyOptions} \cup {StateOptions(v) : v \in -1 .. NumStates}

ResetState(options) ==
    IF ~options.isNone /\ "state" \in options.keys
    THEN options.state
    ELSE 0

MutResetCount(count) == count
ResetCount(count) == 0

reset(e, seed, options) ==
    /\ rng' = IF seed /= <<>> THEN SeedRng(seed[1]) ELSE rng
    /\ state' = [state EXCEPT ![e] = ResetState(options)]
    /\ step_count' = [step_count EXCEPT ![e] = ResetCount(@)]
    /\ calls' = [calls EXCEPT ![e] = 0]
    /\ ret' = [op |-> "reset", env |-> e, arg |-> <<seed, options>>,
               before |-> Fields(e), error |-> "none",
               result |-> <<[observation |-> ResetState(options),
                             info |-> <<>>]>>]
    /\ UNCHANGED peVars

----------------------------------------------------------------------------
(* The dynamics table.  main.py asks the environment for it, but the class *)
(* defines no such method; the table below is the one section 4.1 of the   *)
(* specification describes.  An outcome is (prob, next_state, reward,      *)
(* done), prob being a numerator over ProbDen.                             *)

Terminals == holes \cup {goal}

SlipSet(a) ==
    CASE a = 0 -> <<0, 1, 3>>   \* LEFT  -> LEFT, DOWN, UP
      [] a = 1 -> <<1, 0, 2>>   \* DOWN  -> DOWN, LEFT, RIGHT
      [] a = 2 -> <<2, 1, 3>>   \* RIGHT -> RIGHT, DOWN, UP
      [] a = 3 -> <<3, 0, 2>>   \* UP    -> UP, LEFT, RIGHT

RowDelta(a) == CASE a = 1 -> 1 [] a = 3 -> -1 [] OTHER -> 0
ColDelta(a) == CASE a = 2 -> 1 [] a = 0 -> -1 [] OTHER -> 0

ClampedCell(c, a) ==
    LET r2 == (c \div grid_size) + RowDelta(a)
        c2 == (c % grid_size) + ColDelta(a)
    IN  IF r2 \in 0 .. (grid_size - 1) /\ c2 \in 0 .. (grid_size - 1)
        THEN r2 * grid_size + c2
        ELSE c

Outcome(c, a) ==
    LET n == ClampedCell(c, a)
    IN  [prob |-> 1, next_state |-> n,
         reward |-> IF n = goal THEN 1 ELSE 0,
         done |-> n \in Terminals]

env_dynamic ==
    [c \in 0 .. (NumStates - 1) |->
        [a \in 0 .. (NumActions - 1) |->
            IF c \in Terminals
            THEN <<[prob |-> ProbDen, next_state |-> c, reward |-> 0,
                    done |-> TRUE]>>
            ELSE [i \in 1 .. 3 |-> Outcome(c, SlipSet(a)[i])]]]

\* The law of step() written as a table: what lines 73-109 do from every
\* cell, one outcome per entry of action_probability[a]
StepOutcome(c, a, i) ==
    LET new_state == Move(c, action_probability[a][i])
    IN  [prob |-> probs[i], next_state |-> new_state,
         reward |-> RewardOf(new_state), done |-> DoneOf(new_state)]

StepDynamic ==
    [c \in 0 .. (NumStates - 1) |->
        [a \in 0 .. (NumActions - 1) |->
            [i \in 1 .. 3 |-> StepOutcome(c, a, i)]]]

----------------------------------------------------------------------------
(* policy_evaluation.  Floats are modelled as exact fractions: gamma and   *)
(* theta are num/den records, prev_V holds numerators over den, and V      *)
(* holds numerators over VDen.                                             *)

Zeros(n) == [x \in 0 .. (n - 1) |-> 0]

VDen == den * ProbDen * gamma.den

Abs(x) == IF x < 0 THEN -x ELSE x

\* line 10: terminal_states is not None and s in terminal_states
MutInTerminalStates(ts, x) == FALSE
InTerminalStates(ts, x) == ts.given /\ x \in ts.elems

\* line 15, one outcome's share as a numerator over VDen
MutTerm(o) ==
    o.prob * (o.reward * gamma.den * den
              + gamma.num * prev_V[s] * (IF o.done THEN 0 ELSE 1))
Term(o) ==
    o.prob * (o.reward * gamma.den * den
              + gamma.num * prev_V[o.next_state] * (IF o.done THEN 0 ELSE 1))

\* lines 14-15: what the inner loop adds to V[s]
RECURSIVE Backup(_, _)
Backup(outs, n) ==
    IF n = 0 THEN 0 ELSE Backup(outs, n - 1) + Term(outs[n])

\* lines 9-15, one pass of the for loop
MutSweepState ==
    /\ pc = "sweep"
    /\ s < Cardinality(DOMAIN P)
    /\ IF InTerminalStates(terminal_states, s)
       THEN /\ V' = [V EXCEPT ![s] = 0]
            /\ s' = s + 1
            /\ pc' = pc
            /\ terminal_states' =
                   [terminal_states EXCEPT !.elems = @ \ {s}]
       ELSE IF s \notin DOMAIN pi
       THEN /\ pc' = "IndexError"
            /\ UNCHANGED <<V, s, terminal_states>>
       ELSE IF pi[s] \notin DOMAIN P[s]
       THEN /\ pc' = "IndexError"
            /\ UNCHANGED <<V, s, terminal_states>>
       ELSE /\ V' = [V EXCEPT ![s] = @ + Backup(P[s][pi[s]], Len(P[s][pi[s]]))]
            /\ s' = s + 1
            /\ pc' = pc
            /\ UNCHANGED terminal_states
    /\ UNCHANGED <<prev_V, den, sweeps>>
    /\ UNCHANGED <<pi, P, gamma, theta>>
    /\ UNCHANGED envVars
    /\ UNCHANGED log
SweepState ==
    /\ pc = "sweep"
    /\ s < Cardinality(DOMAIN P)
    /\ IF InTerminalStates(terminal_states, s)
       THEN /\ V' = [V EXCEPT ![s] = 0]
            /\ s' = s + 1
            /\ pc' = pc
       ELSE IF s \notin DOMAIN pi
       THEN \* line 13: pi has no entry s
            /\ pc' = "IndexError"
            /\ UNCHANGED <<V, s>>
       ELSE IF pi[s] \notin DOMAIN P[s]
       THEN \* line 14: P[s] has no entry pi[s]
            /\ pc' = "IndexError"
            /\ UNCHANGED <<V, s>>
       ELSE /\ V' = [V EXCEPT ![s] = @ + Backup(P[s][pi[s]], Len(P[s][pi[s]]))]
            /\ s' = s + 1
            /\ pc' = pc
    /\ UNCHANGED <<prev_V, den, sweeps>>
    /\ UNCHANGED argVars
    /\ UNCHANGED envVars
    /\ UNCHANGED log

\* np.max(np.abs(prev_V - V)), as a numerator over VDen
MutMaxDiff(n) ==
    LET diffs == {prev_V[x] * ProbDen * gamma.den - V[x] :
                      x \in 0 .. (n - 1)}
    IN  IF diffs = {} THEN 0
        ELSE CHOOSE m \in diffs : \A d \in diffs : d <= m
MaxDiff(n) ==
    LET diffs == {Abs(prev_V[x] * ProbDen * gamma.den - V[x]) :
                      x \in 0 .. (n - 1)}
    IN  IF diffs = {} THEN 0
        ELSE CHOOSE m \in diffs : \A d \in diffs : d <= m

\* line 16
MutConverged ==
    \A x \in DOMAIN V : Abs(V[x]) <= (theta.num * VDen - 1) \div theta.den
Converged == MaxDiff(Cardinality(DOMAIN P)) * theta.den < theta.num * VDen

\* lines 16-19 and the return to line 8
MutEndOfSweep ==
    /\ pc = "sweep"
    /\ s = Cardinality(DOMAIN P)
    /\ IF Converged
       THEN /\ pc' = "returned"
            /\ UNCHANGED <<prev_V, V, den, s, sweeps>>
       ELSE /\ sweeps < MaxSweeps
            /\ prev_V' = V
            /\ den' = VDen
            /\ V' = [x \in DOMAIN V |-> V[x] * ProbDen * gamma.den]
            /\ s' = 0
            /\ sweeps' = sweeps + 1
            /\ pc' = pc
    /\ UNCHANGED argVars
    /\ UNCHANGED envVars
    /\ UNCHANGED log
EndOfSweep ==
    /\ pc = "sweep"
    /\ s = Cardinality(DOMAIN P)
    /\ IF Converged
       THEN /\ pc' = "returned"
            /\ UNCHANGED <<prev_V, V, den, s, sweeps>>
       ELSE /\ sweeps < MaxSweeps
            /\ prev_V' = V
            /\ den' = VDen
            /\ V' = Zeros(Cardinality(DOMAIN P))
            /\ s' = 0
            /\ sweeps' = sweeps + 1
            /\ pc' = pc
    /\ UNCHANGED argVars
    /\ UNCHANGED envVars
    /\ UNCHANGED log

\* the value the call returned, as a fraction
Returned(x) == [num |-> V[x], den |-> VDen]

----------------------------------------------------------------------------
(* main.py *)

\* what an instance of CustomSFLEnv defines (gym.Env adds nothing named
\* env_dynamic)
CustomSFLEnvAttrs ==
    {"__init__", "reset", "step", "render", "close", "action_space",
     "observation_space", "holes", "goal", "grid_size", "state",
     "step_count", "cell_size", "screen_size", "screen", "clock", "font"}

MainPi ==
    [x \in 0 .. 15 |->
        <<2, 0, 1, 3, 0, 1, 2, 3, 3, 1, 3, 3, 0, 2, 2, 3>>[x + 1]]

MainGamma == [num |-> 9, den |-> 10]
\* a threshold the bounded sweeps can meet (the default of line 5 is 1e-10)
CoarseTheta == [num |-> 1, den |-> 10]
\* the largest of the thresholds tried under which state 0 of main.py's
\* policy is reached by a backup before the loop stops
FineTheta == [num |-> 1, den |-> 60]
NoTerminalStates == [given |-> FALSE, elems |-> {}]
MainTerminalStates == [given |-> TRUE, elems |-> holes \cup {goal}]

\* line 8, then lines 10-12 up to the first statement of policy_evaluation
main ==
    /\ pc = "main:8"
    /\ IF "env_dynamic" \in CustomSFLEnvAttrs
       THEN /\ pc' = "sweep"
            /\ P' = env_dynamic
            /\ terminal_states' = MainTerminalStates
            /\ pi' = MainPi
            /\ gamma' = MainGamma
            /\ UNCHANGED <<theta, prev_V, V, den, s, sweeps>>
       ELSE /\ pc' = "AttributeError"
            /\ UNCHANGED <<pi, P, gamma, theta, terminal_states, prev_V, V,
                           den, s, sweeps>>
    /\ UNCHANGED envVars
    /\ UNCHANGED log

----------------------------------------------------------------------------
(* Specifications *)

NoCall == [op |-> "init", env |-> "env1", arg |-> <<>>,
           before |-> [state |-> 0, step_count |-> 0], error |-> "none",
           result |-> <<>>]

InitEnv ==
    /\ state = [e \in {"env1"} |-> 0]
    /\ step_count = [e \in {"env1"} |-> 0]
    /\ calls = [e \in {"env1"} |-> 0]
    /\ rng \in RngStates
    /\ ret = NoCall
    /\ log = <<>>

\* the locals of policy_evaluation after line 6 and line 8
InitLocals ==
    /\ prev_V = Zeros(NumStates)
    /\ V = Zeros(NumStates)
    /\ den = 1
    /\ s = 0
    /\ sweeps = 0

\* The environment on its own: any sequence of reset and step calls, the
\* generator freshly seeded from the operating system.
\* (policy_evaluation is not running: its arguments and locals are unbound)
Init ==
    /\ InitEnv
    /\ pc = "idle"
    /\ pi = <<>>
    /\ P = <<>>
    /\ gamma = MainGamma
    /\ theta = CoarseTheta
    /\ terminal_states = NoTerminalStates
    /\ prev_V = <<>>
    /\ V = <<>>
    /\ den = 1
    /\ s = 0
    /\ sweeps = 0

Reset == \E e \in DOMAIN state, seed \in SeedArgs, options \in OptionArgs :
             reset(e, seed, options) /\ UNCHANGED log

Step == \E e \in DOMAIN state, action \in ActionArgs :
            step(e, action) /\ UNCHANGED log

Next == Reset \/ Step

Spec == Init /\ [][Next]_vars

\* The environment used as documented: reset without an override or with
\* one in 0..15, and step with an action of the action space.
LegalOptionArgs ==
    {NoOptions, EmptyOptions}
        \cup {StateOptions(v) : v \in 0 .. (NumStates - 1)}

ResetLegal ==
    /\ \E e \in DOMAIN state, seed \in SeedArgs, options \in LegalOptionArgs :
           reset(e, seed, options)
    /\ UNCHANGED log

StepValid ==
    /\ \E e \in DOMAIN state, action \in 0 .. (NumActions - 1) :
           step(e, action)
    /\ UNCHANGED log

InitLegal == Init

NextLegal == ResetLegal \/ StepValid

SpecLegal == InitLegal /\ [][NextLegal]_vars

\* The policies, discounts, thresholds and tables policy_evaluation is
\* called with
ConstPi(a) == [x \in 0 .. (NumStates - 1) |-> a]
BadActionPi == [MainPi EXCEPT ![2] = NumActions]
ShortPi == [x \in 0 .. (NumStates - 3) |-> MainPi[x]]
\* a policy that heads for the goal only from the bottom row
SlowPi ==
    [x \in 0 .. 15 |->
        <<0, 0, 2, 1, 0, 0, 3, 0, 0, 0, 0, 0, 0, 2, 2, 0>>[x + 1]]
Policies ==
    {MainPi, BadActionPi, ShortPi, SlowPi} \cup {ConstPi(a) : a \in 0 .. 3}
Gammas == {[num |-> 0, den |-> 1], [num |-> 1, den |-> 2], MainGamma,
           [num |-> 1, den |-> 1]}
Thetas == {CoarseTheta}
TerminalArgs == {NoTerminalStates, MainTerminalStates}
Tables == {env_dynamic, StepDynamic}

\* Either main.py runs, or policy_evaluation is called directly.
InitPE ==
    /\ InitEnv
    /\ InitLocals
    /\ pi \in Policies
    /\ P \in Tables
    /\ gamma \in Gammas
    /\ theta \in Thetas
    /\ terminal_states \in TerminalArgs
    /\ pc \in {"main:8", "sweep"}
    /\ pc = "main:8" =>
          /\ pi = MainPi
          /\ P = env_dynamic
          /\ gamma = MainGamma
          /\ terminal_states = MainTerminalStates

NextPE == main \/ SweepState \/ EndOfSweep

SpecPE == InitPE /\ [][NextPE]_vars

\* policy_evaluation called with the arguments of main.py lines 10-12 and a
\* table of the layout
InitMain ==
    /\ InitEnv
    /\ InitLocals
    /\ pi = MainPi
    /\ P \in Tables
    /\ gamma = MainGamma
    /\ theta = FineTheta
    /\ terminal_states = MainTerminalStates
    /\ pc = "sweep"

NextMain == SweepState \/ EndOfSweep

SpecMain == InitMain /\ [][NextMain]_vars

\* line 6 at the start of a call: prev_V and the denominator it is read over
MutFirstPrev(n) == [vec |-> V, den |-> VDen]
FirstPrev(n) == [vec |-> Zeros(n), den |-> 1]

\* The caller keeps the vector a call returned and calls policy_evaluation
\* again with the same arguments.
CallAgain ==
    /\ pc = "returned"
    /\ log = <<>>
    /\ log' = <<[V |-> V, den |-> VDen, sweeps |-> sweeps]>>
    /\ pc' = "sweep"
    /\ prev_V' = FirstPrev(Cardinality(DOMAIN P)).vec
    /\ den' = FirstPrev(Cardinality(DOMAIN P)).den
    /\ V' = Zeros(Cardinality(DOMAIN P))
    /\ s' = 0
    /\ sweeps' = 0
    /\ UNCHANGED argVars
    /\ UNCHANGED envVars

\* Between the two calls the caller may use the environment (the process is
\* single-threaded: nothing runs while policy_evaluation does).
StepBetween ==
    /\ pc = "returned"
    /\ log = <<>>
    /\ \E action \in 0 .. (NumActions - 1) : step("env1", action)
    /\ UNCHANGED log

ResetBetween ==
    /\ pc = "returned"
    /\ log = <<>>
    /\ ret.op = "step"
    /\ reset("env1", <<>>, NoOptions)
    /\ UNCHANGED log

InitTwice ==
    /\ InitEnv
    /\ InitLocals
    /\ pi \in {MainPi, ConstPi(1)}
    /\ P \in Tables
    /\ gamma \in Gammas
    /\ theta \in Thetas
    /\ terminal_states \in TerminalArgs
    /\ pc = "sweep"

NextTwice ==
    SweepState \/ EndOfSweep \/ CallAgain \/ StepBetween \/ ResetBetween

SpecTwice == InitTwice /\ [][NextTwice]_vars

\* A caller that repeats a seeded run on the first instance: it resets with
\* a seed, steps, keeps what each step returned, then resets with the same
\* arguments and replays the same actions.
StartRunWith(optionArgs) ==
    /\ Len(log) < 2
    /\ \E seed \in SeedArgs \ {<<>>}, options \in optionArgs :
           /\ log /= <<>> => (seed = log[1].seed /\ options = log[1].options)
           /\ reset("env1", seed, options)
           /\ log' = Append(log, [seed |-> seed, options |-> options,
                                   steps |-> <<>>])

StartRun == StartRunWith(OptionArgs)

RunStep ==
    /\ log /= <<>>
    /\ LET k == Len(log)
           n == Len(log[k].steps)
       IN  \E action \in 0 .. (NumActions - 1) :
               /\ k = 2 => /\ n < Len(log[1].steps)
                           /\ action = log[1].steps[n + 1].action
               /\ step("env1", action)
               /\ log' = [log EXCEPT ![k].steps =
                              Append(@, [action |-> action,
                                         result |-> ret'.result[1]])]

InitRepro == Init

NextRepro == StartRun \/ RunStep

SpecRepro == InitRepro /\ [][NextRepro]_vars

\* The same caller in a process that holds a second instance and uses it
\* at any time.
OtherStep ==
    /\ \E e \in DOMAIN state \ {"env1"}, action \in 0 .. (NumActions - 1) :
           step(e, action)
    /\ UNCHANGED log

OtherReset ==
    /\ \E e \in DOMAIN state \ {"env1"}, seed \in SeedArgs :
           reset(e, seed, NoOptions)
    /\ UNCHANGED log

InitTwo ==
    /\ state = [e \in Envs |-> 0]
    /\ step_count = [e \in Envs |-> 0]
    /\ calls = [e \in Envs |-> 0]
    /\ rng \in RngStates
    /\ ret = NoCall
    /\ log = <<>>
    /\ pc = "idle"
    /\ pi = <<>>
    /\ P = <<>>
    /\ gamma = MainGamma
    /\ theta = CoarseTheta
    /\ terminal_states = NoTerminalStates
    /\ prev_V = <<>>
    /\ V = <<>>
    /\ den = 1
    /\ s = 0
    /\ sweeps = 0

NextTwo == StartRunWith({NoOptions}) \/ RunStep \/ OtherStep \/ OtherReset

SpecTwo == InitTwo /\ [][NextTwo]_vars

\* The interpreter runs a started call on: no statement waits for anything.
SpecPEFair ==
    InitPE /\ [][NextPE]_vars /\ WF_vars(SweepState) /\ WF_vars(EndOfSweep)

----------------------------------------------------------------------------
(* Properties of the environment, checked under Spec *)

IsStep == ret.op = "step"
StepOk == ret.op = "step" /\ ret.error = "none"
IsReset == ret.op = "reset"

\* C1: step(action) with an action outside {0,1,2,3} fails with the
\* invalid-action error (the assertion of line 70) and leaves the state and
\* step_count of the instance exactly as they were before the call.
C1_InvalidActionRejected ==
    (IsStep /\ ret.arg[1] \notin {0, 1, 2, 3}) =>
        /\ ret.error = "AssertionError"
        /\ ret.result = <<>>
        /\ state[ret.env] = ret.before.state
        /\ step_count[ret.env] = ret.before.step_count

C1_Witness ==
    /\ IsStep
    /\ ret.arg[1] = 4
    /\ ret.error = "AssertionError"
    /\ ret.before.step_count = 1
    /\ ret.before.state = 4

\* The law of step() from cell c under intended action a: every outcome
\* (actual action, next state, reward, done) with the number of the ProbDen
\* equally likely draws of random() that produce it
StepLaw(c, a) ==
    LET drawn(u) == Choices(action_probability[a], probs, u)
        draws == 0 .. (ProbDen - 1)
    IN  {<<drawn(u), Move(c, drawn(u)), RewardOf(Move(c, drawn(u))),
           DoneOf(Move(c, drawn(u))),
           Cardinality({w \in draws : drawn(w) = drawn(u)})>> : u \in draws}

\* The same from the dynamics table: the i-th outcome belongs to the i-th
\* action of the slip set and has weight prob / ProbDen
TableLaw(c, a) ==
    {<<SlipSet(a)[i], env_dynamic[c][a][i].next_state,
       env_dynamic[c][a][i].reward, env_dynamic[c][a][i].done,
       env_dynamic[c][a][i].prob>> : i \in DOMAIN env_dynamic[c][a]}

\* C4: from every non-terminal state and for every intended action, the
\* outcomes step() can produce, each with weight 1/3, are exactly the
\* outcomes of the dynamics table for that state and action, and what a
\* step call returned is one of them.
C4_StepMatchesTable ==
    (StepOk /\ ret.before.state \in (0 .. 15) \ Terminals) =>
        LET c == ret.before.state
            r == ret.result[1]
        IN  /\ \A a \in 0 .. 3 :
                  /\ StepLaw(c, a) = TableLaw(c, a)
                  /\ \A o \in StepLaw(c, a) : o[5] = 1 /\ ProbDen = 3
            /\ <<r.info.actual_action, r.observation, r.reward, r.done, 1>>
                   \in TableLaw(c, ret.arg[1])
            /\ state[ret.env] = r.observation

C4_Witness ==
    /\ StepOk
    /\ ret.before.state = 14
    /\ ret.arg[1] = 1
    /\ ret.result[1].info.actual_action = 2
    /\ ret.result[1].observation = 15
    /\ ret.result[1].reward = 1

\* C5: the realized action is the intended one or one of the two
\* perpendicular to it, never the opposite one, and each of the three can be
\* realized.
C5Allowed(a) ==
    CASE a = 0 -> {0, 1, 3}
      [] a = 1 -> {1, 0, 2}
      [] a = 2 -> {2, 1, 3}
      [] a = 3 -> {3, 0, 2}

C5_SlipSet ==
    StepOk =>
        LET a == ret.arg[1]
            actual == ret.result[1].info.actual_action
        IN  /\ actual \in C5Allowed(a)
            /\ actual /= (a + 2) % 4
            /\ \A x \in C5Allowed(a) : \E r \in RngStates :
                   Choices(action_probability[a], probs, r) = x

C5_Witness ==
    /\ StepOk
    /\ ret.arg[1] = 0
    /\ ret.result[1].info.actual_action = 3

\* C6: from a state in 0..15 a realized action that would leave the grid
\* keeps the position (no wrap-around); any other moves exactly one cell in
\* its direction.
C6_BoundaryMotion ==
    (StepOk /\ ret.before.state \in 0 .. 15) =>
        LET c == ret.before.state
            row == c \div 4
            col == c % 4
            actual == ret.result[1].info.actual_action
            n == ret.result[1].observation
        IN  /\ n = state[ret.env]
            /\ actual = 3 => n = (IF row = 0 THEN c ELSE c - 4)
            /\ actual = 1 => n = (IF row = 3 THEN c ELSE c + 4)
            /\ actual = 0 => n = (IF col = 0 THEN c ELSE c - 1)
            /\ actual = 2 => n = (IF col = 3 THEN c ELSE c + 1)

C6_Witness ==
    /\ StepOk
    /\ ret.before.state = 3
    /\ ret.result[1].info.actual_action = 2
    /\ ret.result[1].observation = 3

\* C7: a valid step returns reward 1 iff the resulting state is the goal 15
\* and 0 otherwise, and done iff the resulting state is a hole or the goal.
C7_RewardAndDone ==
    StepOk =>
        LET r == ret.result[1]
        IN  /\ r.observation = state[ret.env]
            /\ r.reward \in {0, 1}
            /\ r.reward = 1 <=> state[ret.env] = 15
            /\ r.done <=> state[ret.env] \in {5, 7, 11, 12, 15}
            /\ r.truncated = FALSE

C7_Witness ==
    /\ StepOk
    /\ ret.result[1].observation = 15
    /\ ret.result[1].reward = 1
    /\ ret.result[1].done

\* C8: right after a reset step_count is 0, and after k valid step calls
\* since that reset step_count and the returned info step_count equal k.
C8_StepCount ==
    /\ IsReset => step_count[ret.env] = 0
    /\ \A e \in DOMAIN state : step_count[e] = calls[e]
    /\ StepOk => ret.result[1].info.step_count = calls[ret.env]
    /\ (StepOk /\ ret.before.step_count = 0) =>
           ret.result[1].info.step_count = 1

C8_Witness ==
    /\ StepOk
    /\ calls[ret.env] = 2
    /\ ret.result[1].info.step_count = 2

\* C9: reset rejects a start-state override outside 0..15 with an
\* invalid-state error, so reset never leaves the state out of range.
C9_ResetValidatesOverride ==
    IsReset =>
        LET options == ret.arg[2]
        IN  /\ (~options.isNone /\ "state" \in options.keys
                /\ options.state \notin 0 .. 15) =>
                   (ret.error /= "none" /\ state[ret.env] = ret.before.state)
            /\ ret.error = "none" => state[ret.env] \in 0 .. 15

----------------------------------------------------------------------------
(* Properties of policy_evaluation and main.py, checked under SpecPE *)

\* C2: the returned vector is 0 at every hole and at the goal, whatever the
\* policy and gamma (the terminal states being passed as terminal_states,
\* or being the zero-reward self-loops of the dynamics table).
C2_TerminalValueZero ==
    (pc = "returned"
     /\ (terminal_states = MainTerminalStates \/ P = env_dynamic)) =>
        \A x \in {5, 7, 11, 12, 15} : Returned(x).num = 0

C2_Witness ==
    /\ pc = "returned"
    /\ terminal_states = MainTerminalStates
    /\ P = StepDynamic
    /\ pi = MainPi
    /\ sweeps >= 1
    /\ Returned(14).num > 0

\* C3: the environment answers the dynamics-table query of the entry point,
\* and the table is total over states 0..15 and actions 0..3.
C3_TableQueryExists ==
    /\ pc /= "AttributeError"
    /\ pc \in {"sweep", "returned"} =>
           /\ DOMAIN P = 0 .. 15
           /\ \A x \in 0 .. 15 :
                  /\ DOMAIN P[x] = 0 .. 3
                  /\ \A a \in 0 .. 3 : Len(P[x][a]) >= 1

\* a policy that names an action outside the action set or has no entry for
\* a non-terminal state
InvalidPolicy ==
    \E x \in (0 .. 15) \ Terminals :
        x \notin DOMAIN pi \/ pi[x] \notin 0 .. 3

\* C10: an invalid policy is rejected with a policy error before the first
\* sweep computes anything; no lookup fails in the middle of a sweep.
C10_PolicyValidatedFirst ==
    InvalidPolicy =>
        /\ pc /= "IndexError"
        /\ pc /= "returned"
        /\ s = 0 /\ sweeps = 0 /\ V = Zeros(NumStates)

\* a policy with a valid action for every state
TotalPolicy ==
    /\ DOMAIN pi = 0 .. 15
    /\ \A x \in 0 .. 15 : pi[x] \in 0 .. 3

\* C11: with gamma < 1, theta > 0 and a total policy on the 4x4 layout, the
\* sweep loop eventually meets the convergence test and returns.
C11_Terminates ==
    (pc = "sweep" /\ gamma.num < gamma.den /\ theta.num > 0 /\ TotalPolicy)
        ~> (pc = "returned")

C11_Witness ==
    /\ pc = "returned"
    /\ gamma = MainGamma
    /\ pi = MainPi
    /\ theta.num > 0
    /\ sweeps = 2

\* C12: a second call with the same arguments goes through the same number
\* of sweeps and returns the same vector as the first, whatever the
\* environment's state and step counter have become in between.
C12_Deterministic ==
    (pc = "returned" /\ log /= <<>>) =>
        /\ log[1].sweeps = sweeps
        /\ log[1].den = VDen
        /\ log[1].V = V

C12_Witness ==
    /\ pc = "returned"
    /\ log /= <<>>
    /\ state["env1"] /= 0
    /\ step_count["env1"] = 2
    /\ sweeps = 2
    /\ V[14] > 0

\* C13: two runs that reset with the same seed (and start state) and apply
\* the same valid actions observe, step for step, the same (state, reward,
\* done, actual_action) results.
C13_SeedReproducible ==
    Len(log) = 2 =>
        \A k \in 1 .. Len(log[2].steps) : log[2].steps[k] = log[1].steps[k]

C13_Witness ==
    /\ Len(log) = 2
    /\ Len(log[2].steps) = 2
    /\ log[2].steps[1].result.info.actual_action /= log[2].steps[1].action
    /\ log[2].steps[2].result.observation /= 0

\* C18: calls on a second instance leave the first instance's state and
\* step_count alone and do not change the slip outcomes the first instance
\* obtains after its own reset(seed).
C18_InstancesIsolated ==
    /\ [](Len(log) = 2 =>
            \A k \in 1 .. Len(log[2].steps) :
                log[2].steps[k].result = log[1].steps[k].result)
    /\ [][ret'.env = "env2" =>
              /\ state'["env1"] = state["env1"]
              /\ step_count'["env1"] = step_count["env1"]]_vars

\* The right-hand side of the Bellman expectation equation at state x for a
\* vector W = [num, den], as a numerator over den * ProbDen * gamma.den
RECURSIVE BellmanSum(_, _, _)
BellmanSum(W, outs, n) ==
    IF n = 0 THEN 0
    ELSE BellmanSum(W, outs, n - 1)
         + outs[n].prob
           * (outs[n].reward * gamma.den * W.den
              + (IF outs[n].done THEN 0
                 ELSE gamma.num * W.num[outs[n].next_state]))

\* W solves the Bellman expectation equation of the call's arguments
IsFixedPoint(W) ==
    \A x \in 0 .. 15 :
        IF terminal_states.given /\ x \in terminal_states.elems
        THEN W.num[x] = 0
        ELSE W.num[x] * ProbDen * gamma.den
                 = BellmanSum(W, P[x][pi[x]], Len(P[x][pi[x]]))

\* Vectors that solve the equation for some of the arguments tried (SlowPi
\* and the all-UP policy at gamma 9/10 and 1/2, and the zero vector)
Sparse(d, f) ==
    [num |-> [x \in 0 .. 15 |-> IF x \in DOMAIN f THEN f[x] ELSE 0],
     den |-> d]
KnownFixedPoints ==
    {Sparse(546, 9 :> 45 @@ 10 :> 105 @@ 13 :> 150 @@ 14 :> 305),
     Sparse(70, 9 :> 1 @@ 10 :> 5 @@ 13 :> 6 @@ 14 :> 29),
     Sparse(273, 13 :> 30 @@ 14 :> 100),
     Sparse(35, 13 :> 2 @@ 14 :> 12),
     Sparse(1, 13 :> 0)}

\* |V[x] - W[x]| <= (n / d) * theta
WithinOf(W, x, n, d) ==
    Abs(V[x] * W.den - W.num[x] * VDen) * theta.den * d
        <= n * theta.num * VDen * W.den

\* C14 as claimed: the returned vector is within theta of the fixed point of
\* the Bellman expectation equation in the max norm.
C14_WithinTheta ==
    (pc = "returned" /\ TotalPolicy) =>
        \A W \in KnownFixedPoints :
            IsFixedPoint(W) => \A x \in 0 .. 15 : WithinOf(W, x, 1, 1)

\* C14 as amended: the returned vector is within theta of the previous
\* sweep's vector, and for gamma < 1 within gamma / (1 - gamma) * theta of
\* the fixed point.
C14_WithinContractionBound ==
    (pc = "returned" /\ TotalPolicy) =>
        /\ \A x \in 0 .. 15 :
               Abs(V[x] - prev_V[x] * ProbDen * gamma.den) * theta.den
                   < theta.num * VDen
        /\ \A W \in KnownFixedPoints :
               (IsFixedPoint(W) /\ gamma.num < gamma.den) =>
                   \A x \in 0 .. 15 :
                       WithinOf(W, x, gamma.num, gamma.den - gamma.num)

C14_Witness ==
    /\ pc = "returned"
    /\ pi = SlowPi
    /\ gamma = MainGamma
    /\ \E W \in KnownFixedPoints :
           /\ IsFixedPoint(W)
           /\ ~WithinOf(W, 13, 1, 1)
           /\ WithinOf(W, 13, 9, 1)

SyncValue(x) ==
    IF InTerminalStates(terminal_states, x) THEN 0
    ELSE Backup(P[x][pi[x]], Len(P[x][pi[x]]))

\* C16: a sweep is synchronous.  Every entry already written in the current
\* sweep is the backup over the previous sweep's vector (so the sweep's
\* result does not depend on the order of the states), entries not yet
\* visited are 0, and prev_V changes only after a whole sweep that did not
\* converge, to that sweep's vector.
C16_SynchronousSweep ==
    /\ [](pc \in {"sweep", "returned", "IndexError"} =>
            \A x \in DOMAIN V :
                IF x < s THEN V[x] = SyncValue(x) ELSE V[x] = 0)
    /\ [][prev_V' /= prev_V =>
              /\ s = Cardinality(DOMAIN P)
              /\ ~Converged
              /\ prev_V' = V]_vars

C16_Witness ==
    /\ pc = "sweep"
    /\ sweeps = 1
    /\ s = 16
    /\ pi = ConstPi(2)
    /\ \E i \in 1 .. 3 : P[14][2][i].next_state = 10 /\ ~P[14][2][i].done
    /\ V[10] > prev_V[10] * ProbDen * gamma.den
    /\ V[14] = SyncValue(14)
    /\ V[14] > 0

\* C17: a valid step taken in a terminal state (a hole or the goal) leaves
\* the state on that cell and returns reward 0 and done = true.
C17_TerminalAbsorbing ==
    (StepOk /\ ret.before.state \in Terminals) =>
        /\ ret.result[1].observation = ret.before.state
        /\ state[ret.env] = ret.before.state
        /\ ret.result[1].reward = 0
        /\ ret.result[1].done

\* C19: while policy_evaluation runs, the table P, the policy pi, the
\* terminal_states collection (and gamma and theta) stay as they were passed
\* and the environment's state and step_count are not written; they are not
\* read either: a call made after the environment has moved returns what the
\* call made before returned.
C19_NoSideEffects ==
    /\ [][pc = "sweep" =>
              /\ P' = P
              /\ pi' = pi
              /\ terminal_states' = terminal_states
              /\ gamma' = gamma
              /\ theta' = theta
              /\ state' = state
              /\ step_count' = step_count]_vars
    /\ []((pc = "returned" /\ log /= <<>>) =>
              (log[1].V = V /\ log[1].den = VDen))

C19_Witness ==
    /\ pc = "returned"
    /\ log /= <<>>
    /\ terminal_states = MainTerminalStates
    /\ P = StepDynamic
    /\ state["env1"] \in holes
    /\ step_count["env1"] = 2
    /\ sweeps >= 1
    /\ V[14] > 0

\* C20: after construction and any sequence of reset calls without an
\* override or with one in 0..15 and of valid step calls, state is an integer
\* in 0..15 and step_count a non-negative integer, and a reset without an
\* override has set (and returned) state 0.
C20_StateInRange ==
    /\ \A e \in DOMAIN state :
           /\ state[e] \in 0 .. 15
           /\ step_count[e] \in Nat
    /\ (IsReset /\ (ret.arg[2].isNone \/ "state" \notin ret.arg[2].keys)) =>
           /\ state[ret.env] = 0
           /\ ret.result[1].observation = 0

C20_Witness ==
    /\ StepOk
    /\ ret.before.state = 15
    /\ ret.before.step_count = 1
    /\ ret.result[1].info.actual_action \in {1, 2}
    /\ state[ret.env] = 15
    /\ step_count[ret.env] = 2

====
